---------------------------- MODULE Spec2Model ----------------------------
(***************************************************************************)
(* The pattern flattener and table emitter of the instruction-semantics    *)
(* TableGen backend (utils/TableGen/SemanticsEmitter.cpp) and the reader   *)
(* side of the generated tables (include/llvm/DC/DCInstrSema.h).           *)
(*                                                                         *)
(* Three specifications share the definitions:                             *)
(*   SpecFlat     one Flattener: Flat.flatten(tree) called tree by tree    *)
(*   SpecTwoRuns  two runs of one Flattener on the same trees              *)
(*   Spec         the emitter: constructor, ParseSemantics, fallback, run  *)
(***************************************************************************)
EXTENDS Integers, Sequences, FiniteSets, TLC

VARIABLES
    Flat,              \* the Flattener of the instruction being flattened
    Target,            \* SemanticsTarget: ConstantIdx, CurConstIdx
    trees,             \* history: the trees handed to Flat.flatten so far
    FlatB,             \* the Flattener of a second run on the same input
    TargetB,           \* the SemanticsTarget of the second run
    InstSemas,         \* SemanticsEmitter::InstSemas
    InstIdx,           \* SemanticsEmitter::InstIdx
    pc,                \* where the emitter is
    loopI,             \* index of the fallback loop of the constructor
    nRecs,             \* Semantics records processed by ParseSemantics
    pats,              \* history: the pattern flattened into each InstSemas slot
    insts,             \* history: what the target description said of each
                       \* instruction the emitter looked at
    slotOf,            \* history: InstIdx as it was when run() started
    Out                \* what run() wrote: the three arrays

vars == <<Flat, Target, trees, FlatB, TargetB, InstSemas, InstIdx, pc, loopI,
          nRecs, pats, insts, slotOf, Out>>

-----------------------------------------------------------------------------
(* Bounds of the model *)

\* trees per pattern handed to one Flattener
MaxTrees == 2
\* instructions of the target (enum values 0 .. NumInsts-1)
NumInsts == 2
\* records derived from Semantics
MaxSemaRecs == 1
\* `unsigned` arithmetic wraps; the model keeps the wrap at 2^30, the
\* largest power of two whose sums stay inside the checker's integers.
UnsignedModulus == 2^30

\* SmallPtrSet<Record *, 1>: elements kept in an array up to this size
SmallSize == 1

-----------------------------------------------------------------------------
(* The target description: records, the instruction's operand list *)

Namespace == "X86"

RecordClass ==
    [ GPR |-> "RegisterClass", GPRop |-> "RegisterOperand",
      mem |-> "Operand", i32imm |-> "Operand",
      EAX |-> "Register", EFLAGS |-> "Register", FPSW |-> "Register",
      ESP |-> "Register",
      add |-> "SDNode", X86add_flag |-> "SDNode", sdivrem |-> "SDNode",
      set |-> "set", implicit |-> "implicit" ]

isSubClassOf(Rec, Class) == RecordClass[Rec] = Class

\* RegisterOperand.RegClass
RegClass == [ GPRop |-> "GPR" ]

\* SDNode.Opcode
SDNodeOpcode == [ add |-> "ISD::ADD", X86add_flag |-> "X86ISD::ADD",
                  sdivrem |-> "ISD::SDIVREM" ]

\* SDNodeInfo of the target-independent nodes: enum name and result count
SDNodeInfo == [ add |-> [EnumName |-> "ISD::ADD", NumResults |-> 1] ]

\* SemanticsTarget::SDNodeEquiv, filled by the constructor
SDNodeEquiv == [ X86add_flag |-> "add" ]

\* CGI.Operands
Operands ==
    << [Name |-> "dst", MIOperandNo |-> 0, OperandType |-> "OPERAND_REGISTER",
        Rec |-> "GPR"],
       [Name |-> "a", MIOperandNo |-> 1, OperandType |-> "OPERAND_REGISTER",
        Rec |-> "GPRop"],
       [Name |-> "m", MIOperandNo |-> 2, OperandType |-> "OPERAND_MEMORY",
        Rec |-> "mem"],
       [Name |-> "i", MIOperandNo |-> 7, OperandType |-> "OPERAND_IMMEDIATE",
        Rec |-> "i32imm"] >>

\* 0 is the null pointer, otherwise the position in CGI.Operands
getNamedOperand(Name) ==
    IF Name = "" THEN 0
    ELSE IF \E OI \in 1..Len(Operands) : Operands[OI].Name = Name
         THEN CHOOSE OI \in 1..Len(Operands) : Operands[OI].Name = Name
         ELSE 0

-----------------------------------------------------------------------------
(* TreePatternNode *)

Leaf(Name, Rec, Types) ==
    [Name |-> Name, IsLeaf |-> TRUE, IsInt |-> FALSE, IntVal |-> 0,
     Rec |-> Rec, Types |-> Types, Kids |-> <<>>]

IntLeaf(Value) ==
    [Name |-> "", IsLeaf |-> TRUE, IsInt |-> TRUE, IntVal |-> Value,
     Rec |-> "", Types |-> <<"i32">>, Kids |-> <<>>]

OpNode(Rec, Types, Kids) ==
    [Name |-> "", IsLeaf |-> FALSE, IsInt |-> FALSE, IntVal |-> 0,
     Rec |-> Rec, Types |-> Types, Kids |-> Kids]

getNumTypes(TPN) == Len(TPN.Types)
getNumChildren(TPN) == Len(TPN.Kids)

-----------------------------------------------------------------------------
(* NodeSemantics and the Flattener *)

utostr(N) == ToString(N)

NewNS == [Opcode |-> "", Types |-> <<>>, Operands |-> <<>>]

addOperand(NS, Op) == [NS EXCEPT !.Operands = Append(@, Op)]

NewFlattener ==
    [Sem |-> <<>>, CurDefNo |-> 0, OperandByName |-> <<>>,
     EliminatedImplicitRegs |-> <<>>]

NewTarget == [ConstantIdx |-> <<>>, CurConstIdx |-> 1]

\* a Flattener together with the SemanticsTarget it refers to
Ctx(F, T) == [F |-> F, T |-> T]

setNSTypeFromNode(NS, TPN) ==
    IF getNumTypes(TPN) # 0
    THEN [NS EXCEPT !.Types = @ \o TPN.Types]
    ELSE [NS EXCEPT !.Types = Append(@, "isVoid")]

RECURSIVE CountNonVoid(_)
CountNonVoid(Types) ==
    IF Types = <<>> THEN 0
    ELSE (IF Head(Types) # "isVoid" THEN 1 ELSE 0) + CountNonVoid(Tail(Types))

\* the counter advanced for every type of the node, isVoid included
addSemanticsCountsVoid(NS, C) ==
    [C EXCEPT !.F.CurDefNo = (@ + Len(NS.Types)) % UnsignedModulus,
              !.F.Sem = Append(@, NS)]

addSemantics(NS, C) ==
    [C EXCEPT !.F.CurDefNo = (@ + CountNonVoid(NS.Types)) % UnsignedModulus,
              !.F.Sem = Append(@, NS)]

FirstDefNoOf(CurDefNo, NumTypes) ==
    (CurDefNo - (NumTypes - 1)) % UnsignedModulus

RECURSIVE ResTokens(_, _, _)
ResTokens(Types, FirstDefNo, i) ==
    IF i > Len(Types) THEN <<>>
    ELSE (IF Types[i] # "isVoid"
          THEN <<utostr((FirstDefNo + (i - 1)) % UnsignedModulus)>>
          ELSE <<>>)
         \o ResTokens(Types, FirstDefNo, i + 1)

\* returns [C, P]: the context after the append and the parent with the
\* operands added
addResOperand(Parent, Prev, C) ==
    LET FirstDefNo == FirstDefNoOf(C.F.CurDefNo, Len(Prev.Types))
    IN  [C |-> addSemantics(Prev, C),
         P |-> [Parent EXCEPT
                  !.Operands = @ \o ResTokens(Prev.Types, FirstDefNo, 1)]]

\* a StringMap / std::map as a sequence of <<key, value>> pairs
Has(Map, Key) == \E k \in 1..Len(Map) : Map[k][1] = Key
Get(Map, Key) == Map[CHOOSE k \in 1..Len(Map) : Map[k][1] = Key][2]
Put(Map, Key, Value) == Append(Map, <<Key, Value>>)


QualifiedName(Rec) == Namespace \o "::" \o Rec

\* the operand record after the RegisterOperand normalisation
NormalizedRec(Rec) ==
    IF isSubClassOf(Rec, "RegisterOperand") THEN RegClass[Rec] ELSE Rec

\* flattenOperand without the OperandByName lookup: every reference
\* materializes its node
flattenOperandNoDedup(TPN, Parent, OI, C) ==
    LET OpInfo == Operands[OI]
        OpRec  == NormalizedRec(OpInfo.Rec)
        Op0    == setNSTypeFromNode(NewNS, TPN)
        MINo   == utostr(OpInfo.MIOperandNo)
    IN  IF isSubClassOf(OpRec, "Operand")
        THEN IF OpInfo.OperandType = "OPERAND_IMMEDIATE"
             THEN addResOperand(Parent,
                      addOperand([Op0 EXCEPT !.Opcode = "DCINS::CONSTANT_OP"],
                                 MINo), C)
             ELSE addResOperand(Parent,
                      addOperand(addOperand(
                          [Op0 EXCEPT !.Opcode = "DCINS::CUSTOM_OP"],
                          Namespace \o "::OpTypes::" \o OpRec), MINo),
                      [C EXCEPT !.F.OperandByName =
                          IF Has(@, OpInfo.Name) THEN @
                          ELSE Put(@, OpInfo.Name, C.F.CurDefNo)])
        ELSE addResOperand(Parent,
                 addOperand([Op0 EXCEPT !.Opcode = "DCINS::GET_RC"], MINo), C)

\* returns [C, P]
flattenOperand(TPN, Parent, OI, C) ==
    LET OpInfo == Operands[OI]
        OpRec  == NormalizedRec(OpInfo.Rec)
        Op0    == setNSTypeFromNode(NewNS, TPN)
        MINo   == utostr(OpInfo.MIOperandNo)
    IN  IF isSubClassOf(OpRec, "Operand")
        THEN IF OpInfo.OperandType = "OPERAND_IMMEDIATE"
             THEN addResOperand(Parent,
                      addOperand([Op0 EXCEPT !.Opcode = "DCINS::CONSTANT_OP"],
                                 MINo), C)
             ELSE LET Op1 == addOperand(
                                [Op0 EXCEPT !.Opcode = "DCINS::CUSTOM_OP"],
                                Namespace \o "::OpTypes::" \o OpRec)
                  IN  IF ~Has(C.F.OperandByName, OpInfo.Name)
                      THEN addResOperand(Parent, addOperand(Op1, MINo),
                               [C EXCEPT !.F.OperandByName =
                                   Put(@, OpInfo.Name, C.F.CurDefNo)])
                      ELSE [C |-> C,
                            P |-> addOperand(Parent,
                                     utostr(Get(C.F.OperandByName,
                                                OpInfo.Name)))]
        ELSE \* RegisterClass; anything else is llvm_unreachable
             addResOperand(Parent,
                 addOperand([Op0 EXCEPT !.Opcode = "DCINS::GET_RC"], MINo), C)

\* the index handed out without looking the value up
InternIdxNoLookup(T, Value) == T.CurConstIdx

\* Target.ConstantIdx[Value], with CurConstIdx++ when the entry is new
InternIdx(T, Value) ==
    IF Has(T.ConstantIdx, Value) THEN Get(T.ConstantIdx, Value)
    ELSE T.CurConstIdx

Intern(T, Value) ==
    IF Has(T.ConstantIdx, Value) THEN T
    ELSE [ConstantIdx |-> Put(T.ConstantIdx, Value, T.CurConstIdx),
          CurConstIdx |-> (T.CurConstIdx + 1) % UnsignedModulus]

\* returns [C, P]
flattenLeaf(TPN, Parent, C) ==
    IF TPN.IsInt
    THEN LET Mov == addOperand(
                       [setNSTypeFromNode(NewNS, TPN)
                          EXCEPT !.Opcode = "DCINS::MOV_CONSTANT"],
                       utostr(InternIdx(C.T, TPN.IntVal)))
         IN  addResOperand(Parent, Mov,
                           [C EXCEPT !.T = Intern(C.T, TPN.IntVal)])
    ELSE \* a Register; anything else is llvm_unreachable
         addResOperand(Parent,
             addOperand([setNSTypeFromNode(NewNS, TPN)
                           EXCEPT !.Opcode = "DCINS::GET_REG"],
                        QualifiedName(TPN.Rec)), C)

RECURSIVE ImplicitOperands(_, _)
ImplicitOperands(TPN, i) ==
    IF i > getNumChildren(TPN) THEN <<>>
    ELSE <<QualifiedName(TPN.Kids[i].Rec)>> \o ImplicitOperands(TPN, i + 1)

flattenImplicit(TPN, NS) ==
    [NS EXCEPT !.Opcode = "DCINS::IMPLICIT",
               !.Operands = @ \o ImplicitOperands(TPN, 1)]

\* the PUT_RC / PUT_REG node of the i-th destination of a set (i from 0)
PutNode(TPN, i, FirstDefNo) ==
    LET Child == TPN.Kids[i + 1]
        OpRec == NormalizedRec(Child.Rec)
        Value == utostr((FirstDefNo + i) % UnsignedModulus)
    IN  IF isSubClassOf(OpRec, "RegisterClass")
        THEN [Opcode |-> "DCINS::PUT_RC", Types |-> <<"isVoid">>,
              Operands |->
                <<utostr(Operands[getNamedOperand(Child.Name)].MIOperandNo),
                  Value>>]
        ELSE IF isSubClassOf(OpRec, "Register")
        THEN [Opcode |-> "DCINS::PUT_REG", Types |-> <<"isVoid">>,
              Operands |-> <<QualifiedName(OpRec), Value>>]
        ELSE [Opcode |-> "", Types |-> <<"isVoid">>, Operands |-> <<Value>>]

RECURSIVE AddPuts(_, _, _, _, _)
AddPuts(TPN, i, NumDefs, FirstDefNo, C) ==
    IF i >= NumDefs THEN C
    ELSE AddPuts(TPN, i + 1, NumDefs, FirstDefNo,
                 addSemantics(PutNode(TPN, i, FirstDefNo), C))

\* SmallPtrSet::insert, the set kept in insertion order
InsertReg(Regs, Rec) ==
    IF \E k \in 1..Len(Regs) : Regs[k] = Rec THEN Regs ELSE Append(Regs, Rec)

RECURSIVE AddEliminated(_, _, _, _)
AddEliminated(TPN, i, NumNodeDefs, C) ==
    IF i >= NumNodeDefs THEN C
    ELSE AddEliminated(TPN, i + 1, NumNodeDefs,
             [C EXCEPT !.F.EliminatedImplicitRegs =
                           InsertReg(@, TPN.Kids[i + 1].Rec)])

\* the arity check at the head of flattenSet
SetArityOK(TPN) ==
    getNumChildren(TPN) - 1 = getNumTypes(TPN.Kids[getNumChildren(TPN)])

\* the opcode rewritten by the equivalence, the types left as inferred
SDNodeHeadKeepsTypes(TPN, NS) ==
    LET Operator == TPN.Rec
    IN  IF Operator \in DOMAIN SDNodeEquiv
        THEN [NS EXCEPT !.Opcode = SDNodeInfo[SDNodeEquiv[Operator]].EnumName]
        ELSE [NS EXCEPT !.Opcode = SDNodeOpcode[Operator]]

\* the node an SDNode starts from: opcode and types after the equivalence
SDNodeHead(TPN, NS) ==
    LET Operator == TPN.Rec
    IN  IF Operator \in DOMAIN SDNodeEquiv
        THEN LET SDNI == SDNodeInfo[SDNodeEquiv[Operator]]
                 Drop == getNumTypes(TPN) - SDNI.NumResults
             IN  [NS EXCEPT !.Opcode = SDNI.EnumName,
                            !.Types = SubSeq(@, 1, Len(@) - Drop)]
        ELSE [NS EXCEPT !.Opcode = SDNodeOpcode[Operator]]

RECURSIVE flatten(_, _, _, _), flattenChildren(_, _, _, _)

\* the loop of flattenSDNode over the children; returns [C, P], P being NS
flattenChildren(TPN, i, NS, C) ==
    IF i > getNumChildren(TPN) THEN [C |-> C, P |-> NS]
    ELSE LET r == flatten(TPN.Kids[i], NS, TRUE, C)
         IN  flattenChildren(TPN, i + 1, r.P, r.C)

flattenSDNode(TPN, NS, C) == flattenChildren(TPN, 1, SDNodeHead(TPN, NS), C)

\* flattenSet with the arity check made after the last child was flattened
flattenSetLateCheck(TPN, C) ==
    LET NumNodeDefs == getNumChildren(TPN) - 1
        LastChild   == TPN.Kids[getNumChildren(TPN)]
        r           == flatten(LastChild, NewNS, TRUE, C)
        NumDefs     == Len(r.P.Operands)
        FirstDefNo  == (r.C.F.CurDefNo - NumDefs) % UnsignedModulus
    IN  IF ~SetArityOK(TPN) THEN r.C
        ELSE AddEliminated(TPN, NumDefs, NumNodeDefs,
                 AddPuts(TPN, 0, NumDefs, FirstDefNo, r.C))

\* returns the context
flattenSet(TPN, C) ==
    LET NumNodeDefs == getNumChildren(TPN) - 1
        LastChild   == TPN.Kids[getNumChildren(TPN)]
    IN  IF ~SetArityOK(TPN) THEN C
        ELSE LET r          == flatten(LastChild, NewNS, TRUE, C)
                 NumDefs    == Len(r.P.Operands)
                 FirstDefNo == (r.C.F.CurDefNo - NumDefs) % UnsignedModulus
             IN  AddEliminated(TPN, NumDefs, NumNodeDefs,
                     AddPuts(TPN, 0, NumDefs, FirstDefNo, r.C))

\* flatten(TPN, Parent); HasParent is Parent != 0. Returns [C, P].
flatten(TPN, Parent, HasParent, C) ==
    IF getNamedOperand(TPN.Name) # 0
    THEN flattenOperand(TPN, Parent, getNamedOperand(TPN.Name), C)
    ELSE IF TPN.IsLeaf THEN flattenLeaf(TPN, Parent, C)
    ELSE IF TPN.Rec = "set" THEN [C |-> flattenSet(TPN, C), P |-> Parent]
    ELSE LET NS == setNSTypeFromNode(NewNS, TPN)
             r  == IF TPN.Rec = "implicit"
                   THEN [C |-> C, P |-> flattenImplicit(TPN, NS)]
                   ELSE flattenSDNode(TPN, NS, C)
         IN  IF HasParent THEN addResOperand(Parent, r.P, r.C)
             ELSE [C |-> addSemantics(r.P, r.C), P |-> Parent]

\* the orders in which the range-for of the finalization can visit the set:
\* the array order while the set is small, the bucket order of the record
\* addresses once it has grown
VisitOrders(Regs) ==
    { o \in [1..Len(Regs) -> {Regs[k] : k \in 1..Len(Regs)}] :
        \A j, k \in 1..Len(Regs) : j # k => o[j] # o[k] }

IterationOrders(Regs) ==
    IF Len(Regs) <= SmallSize THEN {Regs} ELSE VisitOrders(Regs)

RECURSIVE ImplicitTail(_, _)
ImplicitTail(Order, i) ==
    IF i > Len(Order) THEN <<>>
    ELSE <<[Opcode |-> "DCINS::IMPLICIT", Types |-> <<"isVoid">>,
            Operands |-> <<QualifiedName(Order[i])>>]>>
         \o ImplicitTail(Order, i + 1)

\* the context after the tree walk of the public flatten
flattenWalk(TPN, C) == flatten(TPN, NewNS, FALSE, C).C

\* the finalization loop of the public flatten, visiting in Order
flattenFinalize(C, Order) ==
    [C EXCEPT !.F.Sem = @ \o ImplicitTail(Order, 1)]

-----------------------------------------------------------------------------
(* The trees the model draws its patterns from *)

OpA   == Leaf("a", "GPRop", <<"i32">>)
OpM   == Leaf("m", "mem", <<"i32">>)
OpI   == Leaf("i", "i32imm", <<"i32">>)
OpDst == Leaf("dst", "GPR", <<"i32">>)
Reg(R) == Leaf("", R, <<"i32">>)

\* the integer literals of the patterns
IntValues == {0, 7}

\* operand lists of the SDNodes one level above the leaves
KidLists ==
    { <<>>, <<OpM, OpM>>, <<OpA, OpA>>, <<OpI, OpI>>,
      <<OpA, IntLeaf(7)>>, <<Reg("EAX"), IntLeaf(0)>> }

\* result types of each SDNode operator as the elaborator infers them
OperatorTypes ==
    [ add |-> <<"i32">>, X86add_flag |-> <<"i32", "i32">>,
      sdivrem |-> <<"i32", "i32">> ]

Level1 ==
    { OpNode(op, OperatorTypes[op], kids) :
        op \in DOMAIN OperatorTypes, kids \in KidLists }

\* an SDNode whose first operand is itself an SDNode
Level2 ==
    { OpNode("add", <<"i32">>, <<n, OpM>>) :
        n \in { x \in Level1 : x.Kids = <<>> } }

Values == Level1 \cup Level2 \cup {OpM, OpA, IntLeaf(7)}

\* the destinations of a set whose last child has N results
Dests(N) ==
    CASE N = 0 -> { <<>> }
      [] N = 1 -> { <<OpDst>>, <<Reg("EAX")>> }
      [] N = 2 -> { <<OpDst, Reg("EFLAGS")>>, <<Reg("EAX"), Reg("FPSW")>> }

\* sets whose destinations match the last child's types
GoodSets ==
    UNION { { OpNode("set", <<>>, d \o <<v>>) : d \in Dests(getNumTypes(v)) } :
            v \in Values }

\* sets with one destination too few or too many
BadSets ==
    { OpNode("set", <<>>, d \o <<v>>) :
        v \in { x \in Level1 : x.Kids = <<OpM, OpM>> } \cup {OpM},
        d \in Dests(0) \cup Dests(1) }
    \ GoodSets

SetTrees == GoodSets \cup BadSets

ImplicitTrees ==
    { OpNode("implicit", <<>>, <<Reg("ESP"), Reg("EFLAGS")>>) }

\* an SDNode at the root, without results
RootNodes == { OpNode("sdivrem", <<>>, <<OpM, IntLeaf(7)>>) }

Trees == SetTrees \cup ImplicitTrees \cup RootNodes

-----------------------------------------------------------------------------
(* SpecFlat: InstSemantics::InstSemantics(Target, CGI, TP), tree by tree *)

EmitterIdle ==
    /\ InstSemas = <<>> /\ InstIdx = <<>> /\ pc = "flat" /\ loopI = 0
    /\ nRecs = 0 /\ pats = <<>> /\ insts = <<>> /\ slotOf = <<>>
    /\ Out = <<>>

emitterVars ==
    <<InstSemas, InstIdx, pc, loopI, nRecs, pats, insts, slotOf, Out>>

InitFlat ==
    /\ Flat = NewFlattener
    /\ Target = NewTarget
    /\ trees = <<>>
    /\ FlatB = NewFlattener
    /\ TargetB = NewTarget
    /\ EmitterIdle

\* Flat.flatten(TP.getTree(i)): the walk and the finalization loop
FlattenTree(t) ==
    /\ pc = "flat"
    /\ Len(trees) < MaxTrees
    /\ LET c == flattenWalk(t, Ctx(Flat, Target))
       IN  \E Order \in IterationOrders(c.F.EliminatedImplicitRegs) :
             /\ Flat' = flattenFinalize(c, Order).F
             /\ Target' = c.T
    /\ trees' = Append(trees, t)
    /\ UNCHANGED <<FlatB, TargetB, emitterVars>>

NextFlat == \E t \in Trees : FlattenTree(t)

SpecFlat == InitFlat /\ [][NextFlat]_vars

-----------------------------------------------------------------------------
(* SpecTwoRuns: the same trees flattened by two runs of the program, each  *)
(* with its own allocation of the register records                         *)

FlattenTreeTwice(t) ==
    /\ pc = "flat"
    /\ Len(trees) < MaxTrees
    /\ LET c == flattenWalk(t, Ctx(Flat, Target))
           d == flattenWalk(t, Ctx(FlatB, TargetB))
       IN  \E OrderA \in IterationOrders(c.F.EliminatedImplicitRegs),
              OrderB \in IterationOrders(d.F.EliminatedImplicitRegs) :
             /\ Flat' = flattenFinalize(c, OrderA).F
             /\ Target' = c.T
             /\ FlatB' = flattenFinalize(d, OrderB).F
             /\ TargetB' = d.T
    /\ trees' = Append(trees, t)
    /\ UNCHANGED emitterVars

NextTwoRuns == \E t \in Trees : FlattenTreeTwice(t)

SpecTwoRuns == InitFlat /\ [][NextTwoRuns]_vars

-----------------------------------------------------------------------------
(* Reading a block back: DCInstrSema::Next / getNextOperand               *)

GenericOpcodes ==
    { "DCINS::END_OF_INSTRUCTION", "DCINS::CONSTANT_OP", "DCINS::CUSTOM_OP",
      "DCINS::GET_RC", "DCINS::GET_REG", "DCINS::PUT_RC", "DCINS::PUT_REG",
      "DCINS::MOV_CONSTANT", "DCINS::IMPLICIT" }

\* the number a decimal token stands for when it is below Limit, else -1
\* (getNextOperand: OpIdx < Vals.size())
TokenValue(Tok, Limit) ==
    IF \E n \in 0..(Limit - 1) : utostr(n) = Tok
    THEN CHOOSE n \in 0..(Limit - 1) : utostr(n) = Tok
    ELSE -1

\* the operand tokens of a node that are read with getNextOperand
DefNoTokens(NS) ==
    IF NS.Opcode \in {"DCINS::PUT_RC", "DCINS::PUT_REG"}
    THEN <<NS.Operands[2]>>
    ELSE IF NS.Opcode \in GenericOpcodes THEN <<>>
    ELSE NS.Operands

\* registerResult calls made by the nodes before position p
RECURSIVE DefsBefore(_, _)
DefsBefore(Sem, p) ==
    IF p <= 1 THEN 0
    ELSE DefsBefore(Sem, p - 1) + CountNonVoid(Sem[p - 1].Types)

Linearized(Sem) ==
    \A p \in 1..Len(Sem) :
        \A k \in 1..Len(DefNoTokens(Sem[p])) :
            TokenValue(DefNoTokens(Sem[p])[k], DefsBefore(Sem, p)) >= 0

\* C1: every operand token of the block that denotes a result index refers
\* to a DefNo defined by a node appearing earlier in the block.
C1_Linearization == Linearized(Flat.Sem)

-----------------------------------------------------------------------------
(* References to named operands, as the walk meets them *)

RECURSIVE Refs(_, _), RefsOfKids(_, _, _)
Refs(TPN, Name) ==
    IF getNamedOperand(TPN.Name) # 0
    THEN (IF TPN.Name = Name THEN 1 ELSE 0)
    ELSE IF TPN.IsLeaf THEN 0
    ELSE IF TPN.Rec = "set"
    THEN (IF SetArityOK(TPN)
          THEN Refs(TPN.Kids[getNumChildren(TPN)], Name) ELSE 0)
    ELSE IF TPN.Rec = "implicit" THEN 0
    ELSE RefsOfKids(TPN, 1, Name)

RefsOfKids(TPN, i, Name) ==
    IF i > getNumChildren(TPN) THEN 0
    ELSE Refs(TPN.Kids[i], Name) + RefsOfKids(TPN, i + 1, Name)

RECURSIVE RefsInTrees(_, _)
RefsInTrees(Ts, Name) ==
    IF Ts = <<>> THEN 0 ELSE Refs(Head(Ts), Name) + RefsInTrees(Tail(Ts), Name)

\* the opcode a named operand materializes as
OperandOpcode(OI) ==
    IF isSubClassOf(NormalizedRec(Operands[OI].Rec), "Operand")
    THEN (IF Operands[OI].OperandType = "OPERAND_IMMEDIATE"
          THEN "DCINS::CONSTANT_OP" ELSE "DCINS::CUSTOM_OP")
    ELSE "DCINS::GET_RC"

\* positions of the nodes of Sem that materialize operand OI
NodesFor(Sem, OI) ==
    { p \in 1..Len(Sem) :
        /\ Sem[p].Opcode = OperandOpcode(OI)
        /\ Sem[p].Operands[Len(Sem[p].Operands)]
             = utostr(Operands[OI].MIOperandNo) }

\* C3 as claimed: an operand referenced twice or more materializes exactly
\* one node, whatever its kind.
C3_DedupAllKinds ==
    \A OI \in 1..Len(Operands) :
        RefsInTrees(trees, Operands[OI].Name) >= 2
            => Cardinality(NodesFor(Flat.Sem, OI)) = 1

\* operand tokens of SDNode nodes of Sem equal to Tok
TokensEqual(Sem, Tok) ==
    UNION { { <<p, k>> : k \in { j \in 1..Len(Sem[p].Operands) :
                                    Sem[p].Operands[j] = Tok } } :
            p \in { q \in 1..Len(Sem) : Sem[q].Opcode \notin GenericOpcodes } }

\* references to Name below an SDNode (not as the last child of a set)
RECURSIVE RefsBelowNodes(_, _)
RefsBelowNodes(Ts, Name) ==
    IF Ts = <<>> THEN 0
    ELSE (IF /\ Head(Ts).Rec = "set"
             /\ getNamedOperand(
                    Head(Ts).Kids[getNumChildren(Head(Ts))].Name) # 0
          THEN 0 ELSE Refs(Head(Ts), Name))
         + RefsBelowNodes(Tail(Ts), Name)

\* C3 amended: only a CUSTOM_OP operand is deduplicated. A referenced
\* CUSTOM_OP operand has exactly one node, OperandByName holds the DefNo of
\* that node's result and every reference below an SDNode puts that DefNo
\* into the SDNode's operands; a GET_RC or CONSTANT_OP operand has one node
\* per reference.
C3_DedupCustomOnly ==
    \A OI \in 1..Len(Operands) :
        LET Name == Operands[OI].Name
            N    == RefsInTrees(trees, Name)
            At   == NodesFor(Flat.Sem, OI)
        IN  IF OperandOpcode(OI) = "DCINS::CUSTOM_OP"
            THEN /\ Cardinality(At) = (IF N >= 1 THEN 1 ELSE 0)
                 /\ Has(Flat.OperandByName, Name) <=> N >= 1
                 /\ N >= 1 =>
                      /\ Get(Flat.OperandByName, Name)
                           = DefsBefore(Flat.Sem, CHOOSE p \in At : TRUE)
                      /\ Cardinality(TokensEqual(Flat.Sem,
                             utostr(Get(Flat.OperandByName, Name))))
                           >= RefsBelowNodes(trees, Name)
            ELSE Cardinality(At) = N

\* C3 witness: a CUSTOM_OP operand and a GET_RC operand both referenced twice
C3_Witness ==
    /\ RefsInTrees(trees, "m") >= 2
    /\ RefsInTrees(trees, "a") >= 2
    /\ RefsBelowNodes(trees, "m") >= 2

-----------------------------------------------------------------------------
(* The IMPLICIT tail *)

\* positions of the one-operand IMPLICIT nodes, the shape of the tail nodes
TailNodes(Sem) ==
    { p \in 1..Len(Sem) :
        Sem[p].Opcode = "DCINS::IMPLICIT" /\ Len(Sem[p].Operands) = 1 }

\* C4: each register dropped by an equivalence rewrite is the operand of
\* exactly one IMPLICIT node with types [void], these nodes come after the
\* nodes of the flattened trees, and there is no other such node.
C4_ImplicitTail ==
    LET Sem  == Flat.Sem
        Regs == Flat.EliminatedImplicitRegs
    IN  /\ \A k \in 1..Len(Regs) :
             Cardinality({ p \in TailNodes(Sem) :
                 Sem[p].Operands = <<QualifiedName(Regs[k])>> }) = 1
        /\ TailNodes(Sem) = (Len(Sem) - Len(Regs) + 1)..Len(Sem)
        /\ \A p \in TailNodes(Sem) : Sem[p].Types = <<"isVoid">>

-----------------------------------------------------------------------------
(* The set-arity mismatch *)

IsBadSet(TPN) ==
    /\ TPN.Rec = "set"
    /\ Len(TPN.Kids) - 1 # Len(TPN.Kids[Len(TPN.Kids)].Types)

\* C9 as claimed: a pattern with a mismatching set leaves the instruction's
\* sequence empty.
C9_MismatchLeavesEmpty ==
    (\E k \in 1..Len(trees) : IsBadSet(trees[k])) => Flat.Sem = <<>>

\* C9 amended: flattening a mismatching set appends no node of that tree and
\* leaves the DefNo counter, the operand-name table, the eliminated registers
\* and the constant pool as they were; only the finalization loop of that
\* call appends the IMPLICIT nodes of the registers recorded so far. What the
\* other trees of the pattern appended stays.
C9_MismatchSkipsTree ==
    [][ (trees' # trees /\ IsBadSet(trees'[Len(trees')])) =>
          /\ Flat'.CurDefNo = Flat.CurDefNo
          /\ Flat'.OperandByName = Flat.OperandByName
          /\ Flat'.EliminatedImplicitRegs = Flat.EliminatedImplicitRegs
          /\ Target' = Target
          /\ \E Order \in IterationOrders(Flat.EliminatedImplicitRegs) :
               Flat'.Sem = Flat.Sem \o ImplicitTail(Order, 1) ]_vars

\* C9 witness: a mismatching set in a pattern whose sequence is not empty,
\* flattened when a register had been recorded
C9_Witness ==
    /\ Len(trees) = 2
    /\ IsBadSet(trees[2])
    /\ Flat.EliminatedImplicitRegs # <<>>
    /\ Flat.CurDefNo > 0

-----------------------------------------------------------------------------
(* Two runs *)

\* C10: two runs of the flattener on the same trees produce the same
\* sequence.
C10_Determinism == FlatB.Sem = Flat.Sem

-----------------------------------------------------------------------------
(* The reference interpreter of a block and the round trip *)

\* symbolic values: an operand, register or literal read, or one result of
\* an SDNode over symbolic values
SymLeaf(Kind, Arg, j) == [op |-> Kind, arg |-> Arg, res |-> j, kids |-> <<>>]
SymNode(Op, Kids, j) == [op |-> Op, arg |-> "", res |-> j, kids |-> Kids]
Undefined == SymLeaf("undefined", "", 0)

\* Vals[OpIdx], for OpIdx the decimal token; the assertion failing is
\* Undefined
getNextOperand(Tok, Vals) ==
    IF TokenValue(Tok, Len(Vals)) = -1 THEN Undefined
    ELSE Vals[TokenValue(Tok, Len(Vals)) + 1]

\* the operand of the instruction with this MIOperandNo
OperandNamed(Tok) ==
    IF \E OI \in 1..Len(Operands) : utostr(Operands[OI].MIOperandNo) = Tok
    THEN Operands[CHOOSE OI \in 1..Len(Operands) :
                      utostr(Operands[OI].MIOperandNo) = Tok].Name
    ELSE "?"

\* ConstantArray[Tok], in decimal
ConstantAt(T, Tok) ==
    IF \E k \in 1..Len(T.ConstantIdx) : utostr(T.ConstantIdx[k][2]) = Tok
    THEN utostr(T.ConstantIdx[CHOOSE k \in 1..Len(T.ConstantIdx) :
                                  utostr(T.ConstantIdx[k][2]) = Tok][1])
    ELSE "?"

\* the value a node computes, before it is split into results
NodeValue(NS, Vals, T, j) ==
    CASE NS.Opcode \in {"DCINS::GET_RC", "DCINS::CONSTANT_OP"} ->
           SymLeaf("operand", OperandNamed(NS.Operands[1]), j)
      [] NS.Opcode = "DCINS::CUSTOM_OP" ->
           SymLeaf("operand", OperandNamed(NS.Operands[2]), j)
      [] NS.Opcode = "DCINS::GET_REG" -> SymLeaf("reg", NS.Operands[1], j)
      [] NS.Opcode = "DCINS::MOV_CONSTANT" ->
           SymLeaf("int", ConstantAt(T, NS.Operands[1]), j)
      [] OTHER ->
           SymNode(NS.Opcode,
                   [k \in 1..Len(NS.Operands) |->
                       getNextOperand(NS.Operands[k], Vals)], j)

\* registerResult for each non-void type of the node
NodeResults(NS, Vals, T) ==
    [j \in 1..CountNonVoid(NS.Types) |-> NodeValue(NS, Vals, T, j - 1)]

\* what executing one node adds to the effects of the instruction
NodeEffects(NS, Vals, T) ==
    CASE NS.Opcode = "DCINS::PUT_RC" ->
           <<[dst |-> OperandNamed(NS.Operands[1]),
              val |-> getNextOperand(NS.Operands[2], Vals)]>>
      [] NS.Opcode = "DCINS::PUT_REG" ->
           <<[dst |-> NS.Operands[1],
              val |-> getNextOperand(NS.Operands[2], Vals)]>>
      [] NS.Opcode \in GenericOpcodes \ {"DCINS::PUT_RC", "DCINS::PUT_REG"} ->
           <<>>
      [] OTHER ->
           IF CountNonVoid(NS.Types) = 0
           THEN <<[dst |-> "", val |-> NodeValue(NS, Vals, T, 0)]>>
           ELSE <<>>

\* the effects of the block from node i on, Vals holding the results so far
RECURSIVE Interpret(_, _, _, _)
Interpret(Sem, i, Vals, T) ==
    IF i > Len(Sem) THEN <<>>
    ELSE IF Sem[i].Opcode \in {"DCINS::PUT_RC", "DCINS::PUT_REG",
                               "DCINS::IMPLICIT"}
    THEN NodeEffects(Sem[i], Vals, T) \o Interpret(Sem, i + 1, Vals, T)
    ELSE NodeEffects(Sem[i], Vals, T)
         \o Interpret(Sem, i + 1, Vals \o NodeResults(Sem[i], Vals, T), T)

\* the results of a pattern node as symbolic values
RECURSIVE PatternValues(_), PatternKids(_, _)
PatternValues(TPN) ==
    IF getNamedOperand(TPN.Name) # 0
    THEN [j \in 1..getNumTypes(TPN) |-> SymLeaf("operand", TPN.Name, j - 1)]
    ELSE IF TPN.IsLeaf
    THEN (IF TPN.IsInt THEN <<SymLeaf("int", utostr(TPN.IntVal), 0)>>
          ELSE <<SymLeaf("reg", QualifiedName(TPN.Rec), 0)>>)
    ELSE LET Head1 == SDNodeHead(TPN, setNSTypeFromNode(NewNS, TPN))
         IN  [j \in 1..CountNonVoid(Head1.Types) |->
                 SymNode(Head1.Opcode, PatternKids(TPN, 1), j - 1)]

PatternKids(TPN, i) ==
    IF i > getNumChildren(TPN) THEN <<>>
    ELSE PatternValues(TPN.Kids[i]) \o PatternKids(TPN, i + 1)

\* the destination a set child names
DestOf(Child) ==
    IF isSubClassOf(NormalizedRec(Child.Rec), "Register")
    THEN QualifiedName(Child.Rec) ELSE Child.Name

\* the effects of one tree of a pattern; a mismatching set has none
PatternEffects(TPN) ==
    IF TPN.Rec = "implicit" \/ IsBadSet(TPN) THEN <<>>
    ELSE IF TPN.Rec = "set"
    THEN LET V == PatternValues(TPN.Kids[getNumChildren(TPN)])
         IN  [k \in 1..Len(V) |-> [dst |-> DestOf(TPN.Kids[k]), val |-> V[k]]]
    ELSE IF PatternValues(TPN) = <<>>
    THEN <<[dst |-> "",
            val |-> SymNode(SDNodeHead(TPN, NewNS).Opcode,
                            PatternKids(TPN, 1), 0)]>>
    ELSE <<>>

RECURSIVE PatternEffectsAll(_)
PatternEffectsAll(Ts) ==
    IF Ts = <<>> THEN <<>>
    ELSE PatternEffects(Head(Ts)) \o PatternEffectsAll(Tail(Ts))

\* C2: interpreting the block rebuilds the pattern: the same destinations,
\* each set to the same symbolic tree, in the same order.
C2_RoundTrip ==
    Interpret(Flat.Sem, 1, <<>>, Target) = PatternEffectsAll(trees)

-----------------------------------------------------------------------------
(* Spec: the emitter *)

Insts == 0..(NumInsts - 1)

\* arrays are sequences; element k of an array (from 0)
At(Arr, k) == Arr[k + 1]

\* InstSemantics::InstSemantics(): the dummy semantics
DummySemantics ==
    << [Opcode |-> "DCINS::END_OF_INSTRUCTION", Types |-> <<>>,
        Operands |-> <<>>] >>

\* InstSemantics::InstSemantics(Target, CGI, TP): the contexts the
\* constructor can end in, from tree i on
RECURSIVE FlattenFrom(_, _, _)
FlattenFrom(TP, i, C) ==
    IF i > Len(TP) THEN {C}
    ELSE LET c == flattenWalk(TP[i], C)
         IN  UNION { FlattenFrom(TP, i + 1, flattenFinalize(c, Order)) :
                     Order \in IterationOrders(c.F.EliminatedImplicitRegs) }

InstSemanticsOf(T, TP) == FlattenFrom(TP, 1, Ctx(NewFlattener, T))

\* the patterns of the target's instructions
EmitPatterns ==
    { <<OpNode("set", <<>>, <<OpDst, OpNode("add", <<"i32">>,
                                            <<OpA, IntLeaf(7)>>)>>)>>,
      <<OpNode("set", <<>>, <<Reg("EAX"), OpNode("add", <<"i32">>,
                                            <<Reg("EAX"), IntLeaf(0)>>)>>)>>,
      <<OpNode("set", <<>>, <<OpDst, OpM>>)>>,
      <<OpNode("set", <<>>, <<OpNode("X86add_flag", <<"i32", "i32">>,
                                     <<OpM, OpM>>)>>)>>,
      <<OpNode("set", <<>>, <<OpDst, Reg("EFLAGS"),
                              OpNode("X86add_flag", <<"i32", "i32">>,
                                     <<OpM, OpM>>)>>),
        OpNode("set", <<>>, <<Reg("EAX"), OpNode("add", <<"i32">>,
                                            <<IntLeaf(0), IntLeaf(7)>>)>>)>> }

\* what InstIdx holds for an instruction: a slot of InstSemas and, after
\* run(), an offset
addInstSemantics(Idx, Semas, InstEnumValue, Sema) ==
    [InstIdx |-> [Idx EXCEPT ![InstEnumValue] = Len(Semas)],
     InstSemas |-> Append(Semas, Sema)]

NoInst == [Sema |-> FALSE, Seen |-> FALSE, HasPattern |-> FALSE,
           IsCodeGenOnly |-> FALSE]

Init ==
    /\ Flat = NewFlattener /\ trees = <<>>
    /\ FlatB = NewFlattener /\ TargetB = NewTarget
    /\ Target = NewTarget
    /\ InstSemas = <<>>
    /\ InstIdx = [i \in Insts |-> 0]
    /\ pc = "ctor" /\ loopI = 0 /\ nRecs = 0
    /\ pats = <<>>
    /\ insts = [i \in Insts |-> NoInst]
    /\ slotOf = <<>>
    /\ Out = <<>>

flatVars == <<Flat, trees, FlatB, TargetB>>

\* the constructor: addInstSemantics(0, InstSemantics())
AddDummy ==
    /\ pc = "ctor"
    /\ LET r == addInstSemantics(InstIdx, InstSemas, 0, DummySemantics)
       IN  InstIdx' = r.InstIdx /\ InstSemas' = r.InstSemas
    /\ pats' = Append(pats, <<>>)
    /\ pc' = "parse"
    /\ UNCHANGED <<flatVars, Target, loopI, nRecs, insts, slotOf, Out>>

\* one iteration of the loop of ParseSemantics: a Semantics record whose
\* Inst is instruction i and whose Pattern is TP
ParseSemanticsRecord(i, TP) ==
    /\ pc = "parse"
    /\ nRecs < MaxSemaRecs
    /\ \E c \in InstSemanticsOf(Target, TP) :
         LET r == addInstSemantics(InstIdx, InstSemas, i, c.F.Sem)
         IN  /\ InstIdx' = r.InstIdx /\ InstSemas' = r.InstSemas
             /\ Target' = c.T
    /\ pats' = Append(pats, TP)
    /\ insts' = [insts EXCEPT ![i].Sema = TRUE]
    /\ nRecs' = nRecs + 1
    /\ UNCHANGED <<flatVars, pc, loopI, slotOf, Out>>

\* ParseSemantics returns
ParseSemanticsDone ==
    /\ pc = "parse"
    /\ pc' = "fallback"
    /\ loopI' = 0
    /\ UNCHANGED <<flatVars, Target, InstSemas, InstIdx, nRecs, pats, insts,
                   slotOf, Out>>

\* the fallback test without the code-gen-only exclusion
FallbackIgnoresCodeGenOnly(Idx, i, HasPattern, IsCodeGenOnly) ==
    Idx[i] = 0 /\ HasPattern

\* the fallback test without the look at what ParseSemantics installed
FallbackReplaces(Idx, i, HasPattern, IsCodeGenOnly) ==
    HasPattern /\ ~IsCodeGenOnly

\* whether the fallback loop installs the instruction's own pattern
FallbackInstalls(Idx, i, HasPattern, IsCodeGenOnly) ==
    Idx[i] = 0 /\ HasPattern /\ ~IsCodeGenOnly

\* one iteration of the fallback loop of the constructor, for an
\* instruction whose DAGInstruction has the pattern TP or none
FallbackStep(HasPattern, TP, IsCodeGenOnly) ==
    /\ pc = "fallback"
    /\ loopI < NumInsts
    /\ IF FallbackInstalls(InstIdx, loopI, HasPattern, IsCodeGenOnly)
       THEN /\ \E c \in InstSemanticsOf(Target, TP) :
                 LET r == addInstSemantics(InstIdx, InstSemas, loopI,
                                           c.F.Sem)
                 IN  /\ InstIdx' = r.InstIdx /\ InstSemas' = r.InstSemas
                     /\ Target' = c.T
            /\ pats' = Append(pats, TP)
       ELSE UNCHANGED <<InstIdx, InstSemas, Target, pats>>
    /\ insts' = [insts EXCEPT ![loopI].Seen = TRUE,
                              ![loopI].HasPattern = HasPattern,
                              ![loopI].IsCodeGenOnly = IsCodeGenOnly]
    /\ loopI' = loopI + 1
    /\ UNCHANGED <<flatVars, pc, nRecs, slotOf, Out>>

\* llvm::getEnumName of a value type
getEnumName(VT) == "MVT::" \o VT

\* what one node writes to the InstSemantics[] array
EmitNode(NS) ==
    <<NS.Opcode>> \o [k \in 1..Len(NS.Types) |-> getEnumName(NS.Types[k])]
                  \o NS.Operands

\* what one node adds to CurSemaOffset
NodeOffset(NS) == 1 + Len(NS.Types) + Len(NS.Operands)

RECURSIVE EmitNodes(_, _), NodesOffset(_, _)
EmitNodes(Sema, k) ==
    IF k > Len(Sema) THEN <<>> ELSE EmitNode(Sema[k]) \o EmitNodes(Sema, k + 1)

NodesOffset(Sema, k) ==
    IF k > Len(Sema) THEN 0 ELSE NodeOffset(Sema[k]) + NodesOffset(Sema, k + 1)

\* the start recorded without the increment that accounts for the
\* END_OF_INSTRUCTION of the block
OffsetNotAdvanced(CurSemaOffset) == CurSemaOffset

\* CurSemaOffset after `InstIdx[I] = CurSemaOffset++`
OffsetAfterStart(CurSemaOffset) == CurSemaOffset + 1

\* whether run() skips instruction I
RunSkips(Idx, Semas, I) == Idx[I] = 0

\* the loop of run() over the instructions, from I on; OS is what was
\* written to InstSemantics[] so far
RECURSIVE RunLoop(_, _, _, _, _)
RunLoop(I, Idx, Semas, CurSemaOffset, OS) ==
    IF I = NumInsts THEN [InstIdx |-> Idx, OS |-> OS]
    ELSE IF RunSkips(Idx, Semas, I)
    THEN RunLoop(I + 1, Idx, Semas, CurSemaOffset, OS)
    ELSE LET Sema == At(Semas, Idx[I])
         IN  RunLoop(I + 1, [Idx EXCEPT ![I] = CurSemaOffset], Semas,
                     OffsetAfterStart(CurSemaOffset) + NodesOffset(Sema, 1),
                     OS \o EmitNodes(Sema, 1)
                        \o <<"DCINS::END_OF_INSTRUCTION">>)

\* the constant stored one position too low
ConstantSlotBelow(Idx) == Idx - 1

\* the position of ConstantArray[] that holds the constant with index Idx
ConstantSlot(Idx) == Idx

\* the Constants vector of run(): zero-initialized, then filled from
\* ConstantIdx
ConstantArrayOf(ConstantIdx) ==
    [k \in 1..(Len(ConstantIdx) + 1) |->
        IF \E j \in 1..Len(ConstantIdx) :
               ConstantSlot(ConstantIdx[j][2]) = k - 1
        THEN ConstantIdx[CHOOSE j \in 1..Len(ConstantIdx) :
                             ConstantSlot(ConstantIdx[j][2]) = k - 1][1]
        ELSE 0]

\* SemanticsEmitter::run
Run ==
    /\ pc = "fallback"
    /\ loopI = NumInsts
    /\ LET r == RunLoop(0, InstIdx, InstSemas, 1,
                        <<"DCINS::END_OF_INSTRUCTION">>)
       IN  /\ InstIdx' = r.InstIdx
           /\ Out' = [InstSemantics |-> r.OS,
                      OpcodeToSemaIdx |-> r.InstIdx,
                      ConstantArray |-> ConstantArrayOf(Target.ConstantIdx)]
    /\ slotOf' = InstIdx
    /\ pc' = "done"
    /\ UNCHANGED <<flatVars, Target, InstSemas, loopI, nRecs, pats, insts>>

Next ==
    \/ AddDummy
    \/ \E i \in Insts, TP \in EmitPatterns : ParseSemanticsRecord(i, TP)
    \/ ParseSemanticsDone
    \/ \E HasPattern, IsCodeGenOnly \in BOOLEAN, TP \in EmitPatterns :
          FallbackStep(HasPattern, TP, IsCodeGenOnly)
    \/ Run

Spec == Init /\ [][Next]_vars

-----------------------------------------------------------------------------
(* The offset table *)

EndOfInstruction == "DCINS::END_OF_INSTRUCTION"

\* the elements of instruction i's block: one per opcode, type and operand
\* of each node, then the END_OF_INSTRUCTION
BlockOf(i) == EmitNodes(At(InstSemas, slotOf[i]), 1) \o <<EndOfInstruction>>

RECURSIVE BlocksBelow(_)
\* the elements of the blocks of the installed instructions below i
BlocksBelow(i) ==
    IF i = 0 THEN 0
    ELSE BlocksBelow(i - 1)
         + (IF slotOf[i - 1] # 0 THEN Len(BlockOf(i - 1)) ELSE 0)

\* C5: after run(), the entry of every instruction with installed semantics
\* is the position of the first element of its block in InstSemantics[]:
\* the sentinel is at 0 and the blocks follow one another in enum order.
C5_OffsetPosition ==
    pc = "done" =>
      /\ At(Out.InstSemantics, 0) = EndOfInstruction
      /\ Len(Out.InstSemantics) = 1 + BlocksBelow(NumInsts)
      /\ \A i \in Insts :
           slotOf[i] # 0 =>
             /\ Out.OpcodeToSemaIdx[i] = 1 + BlocksBelow(i)
             /\ SubSeq(Out.InstSemantics, Out.OpcodeToSemaIdx[i] + 1,
                       Out.OpcodeToSemaIdx[i] + Len(BlockOf(i))) = BlockOf(i)

\* C5 witness: two instructions with different nonempty blocks, one from a
\* Semantics record
C5_Witness ==
    /\ pc = "done"
    /\ nRecs >= 1
    /\ \E i, j \in Insts :
         /\ i < j /\ slotOf[i] # 0 /\ slotOf[j] # 0
         /\ Len(BlockOf(i)) > 1 /\ Len(BlockOf(j)) > 1
         /\ BlockOf(i) # BlockOf(j)

\* C6 as claimed: the entry is 0 exactly for the instructions without
\* semantics, an empty node sequence counting as none.
C6_ZeroIffNoSemantics ==
    pc = "done" =>
      \A i \in Insts :
        Out.OpcodeToSemaIdx[i] = 0
          <=> (slotOf[i] = 0 \/ At(InstSemas, slotOf[i]) = <<>>)

\* C6 amended: the entry is 0 exactly for the instructions for which nothing
\* was installed: no Semantics record names them and they have no pattern or
\* are code-gen-only. An instruction whose installed sequence is empty has a
\* nonzero entry, the position of an END_OF_INSTRUCTION.
C6_ZeroIffNotInstalled ==
    pc = "done" =>
      \A i \in Insts :
        /\ Out.OpcodeToSemaIdx[i] = 0
             <=> ~(insts[i].Sema
                   \/ (insts[i].HasPattern /\ ~insts[i].IsCodeGenOnly))
        /\ (slotOf[i] # 0 /\ At(InstSemas, slotOf[i]) = <<>>) =>
             /\ Out.OpcodeToSemaIdx[i] # 0
             /\ At(Out.InstSemantics, Out.OpcodeToSemaIdx[i])
                  = EndOfInstruction

\* C6 witness: an instruction with an empty installed sequence and a
\* code-gen-only instruction with a pattern and no Semantics record
C6_Witness ==
    /\ pc = "done"
    /\ \E i, j \in Insts :
         /\ slotOf[i] # 0 /\ At(InstSemas, slotOf[i]) = <<>>
         /\ insts[j].HasPattern /\ insts[j].IsCodeGenOnly /\ ~insts[j].Sema

-----------------------------------------------------------------------------
(* The constant pool *)

\* the integer literals of a tree in the order the walk meets them
RECURSIVE Literals(_), LiteralsOfKids(_, _)
Literals(TPN) ==
    IF getNamedOperand(TPN.Name) # 0 THEN <<>>
    ELSE IF TPN.IsLeaf THEN (IF TPN.IsInt THEN <<TPN.IntVal>> ELSE <<>>)
    ELSE IF TPN.Rec = "set"
    THEN (IF IsBadSet(TPN) THEN <<>>
          ELSE Literals(TPN.Kids[getNumChildren(TPN)]))
    ELSE IF TPN.Rec = "implicit" THEN <<>>
    ELSE LiteralsOfKids(TPN, 1)

LiteralsOfKids(TPN, i) ==
    IF i > getNumChildren(TPN) THEN <<>>
    ELSE Literals(TPN.Kids[i]) \o LiteralsOfKids(TPN, i + 1)

RECURSIVE LiteralsOfPattern(_)
LiteralsOfPattern(TP) ==
    IF TP = <<>> THEN <<>>
    ELSE Literals(Head(TP)) \o LiteralsOfPattern(Tail(TP))

\* the literals of all instructions flattened so far, in that order
RECURSIVE AllLiterals(_)
AllLiterals(s) ==
    IF s > Len(pats) THEN <<>>
    ELSE LiteralsOfPattern(pats[s]) \o AllLiterals(s + 1)

\* the constant-pool indices of the MOV_CONSTANT nodes of a sequence
RECURSIVE MovTokens(_, _)
MovTokens(Sema, k) ==
    IF k > Len(Sema) THEN <<>>
    ELSE (IF Sema[k].Opcode = "DCINS::MOV_CONSTANT"
          THEN <<Sema[k].Operands[1]>> ELSE <<>>)
         \o MovTokens(Sema, k + 1)

RECURSIVE AllMovTokens(_)
AllMovTokens(s) ==
    IF s > Len(InstSemas) THEN <<>>
    ELSE MovTokens(InstSemas[s], 1) \o AllMovTokens(s + 1)

\* the number of distinct values among the first j elements
DistinctUpTo(L, j) == Cardinality({ L[k] : k \in 1..j })

FirstOccurrence(L, j) == CHOOSE k \in 1..j : L[k] = L[j] /\
                            \A h \in 1..(k - 1) : L[h] # L[j]

\* C7: over all literals flattened in one session, two literals have the
\* same index iff they have the same value, no index is 0, and the indices
\* are 1..N in first-seen order, N the number of distinct values.
C7_Interning ==
    LET L == AllLiterals(1)
        K == AllMovTokens(1)
    IN  /\ Len(K) = Len(L)
        /\ \A j, k \in 1..Len(L) : (K[j] = K[k]) <=> (L[j] = L[k])
        /\ \A j \in 1..Len(L) :
             /\ K[j] # utostr(0)
             /\ K[j] = utostr(DistinctUpTo(L, FirstOccurrence(L, j)))
        /\ { K[j] : j \in 1..Len(L) }
             = { utostr(n) : n \in 1..DistinctUpTo(L, Len(L)) }
        /\ Target.CurConstIdx = DistinctUpTo(L, Len(L)) + 1

\* C7 witness: one value in two instructions, and a second value
C7_Witness ==
    /\ Len(pats) >= 3
    /\ \E v \in IntValues :
         /\ \E k \in 1..Len(LiteralsOfPattern(pats[2])) :
               LiteralsOfPattern(pats[2])[k] = v
         /\ \E k \in 1..Len(LiteralsOfPattern(pats[3])) :
               LiteralsOfPattern(pats[3])[k] = v
    /\ DistinctUpTo(AllLiterals(1), Len(AllLiterals(1))) >= 2

\* C8: ConstantArray[] has one entry more than the pool, entry 0 is zero,
\* every other entry holds the value that was given its index, and the
\* operand of every MOV_CONSTANT node indexes its literal.
C8_ConstantArray ==
    pc = "done" =>
      LET L  == AllLiterals(1)
          K  == AllMovTokens(1)
          CA == Out.ConstantArray
          Pool == Target.ConstantIdx
      IN  /\ Len(CA) = Len(Pool) + 1
          /\ At(CA, 0) = 0
          /\ \A n \in 1..Len(Pool) :
               /\ Cardinality({ j \in 1..Len(Pool) : Pool[j][2] = n }) = 1
               /\ \A j \in 1..Len(Pool) :
                    Pool[j][2] = n => At(CA, n) = Pool[j][1]
          /\ \A j \in 1..Len(K) :
               /\ TokenValue(K[j], Len(CA)) >= 1
               /\ At(CA, TokenValue(K[j], Len(CA))) = L[j]

\* C8 witness: two constants in the pool, the literal 0 among them
C8_Witness ==
    /\ pc = "done"
    /\ Len(Target.ConstantIdx) = 2
    /\ \E j \in 1..Len(AllLiterals(1)) : AllLiterals(1)[j] = 0

-----------------------------------------------------------------------------
(* The DefNo counter *)

IsPrefix(S, T) == Len(S) <= Len(T) /\ SubSeq(T, 1, Len(S)) = S

\* the non-void types of all nodes of a sequence
NonVoidTotal(Sem) == DefsBefore(Sem, Len(Sem) + 1)

\* C11: CurDefNo is the number of non-void types of the nodes appended so
\* far: 0 for a new flattener, and every tree of the pattern only appends
\* nodes and raises the counter by the non-void types of what it appended,
\* never lowering it.
C11_DefCount ==
    /\ [](Flat.CurDefNo = NonVoidTotal(Flat.Sem))
    /\ [][ /\ IsPrefix(Flat.Sem, Flat'.Sem)
           /\ Flat'.CurDefNo >= Flat.CurDefNo
           /\ Flat'.CurDefNo - Flat.CurDefNo
                = NonVoidTotal(Flat'.Sem) - NonVoidTotal(Flat.Sem) ]_vars

\* C11 witness: two trees flattened, nodes with two results, with one and
\* with none, and an IMPLICIT node of the finalization among them
C11_Witness ==
    /\ Len(trees) >= 2
    /\ Flat.CurDefNo >= 3
    /\ \E p, q, r, t \in 1..Len(Flat.Sem) :
         /\ CountNonVoid(Flat.Sem[p].Types) = 2
         /\ CountNonVoid(Flat.Sem[q].Types) = 1
         /\ Flat.Sem[r].Opcode = "DCINS::PUT_RC"
         /\ Flat.Sem[t].Opcode = "DCINS::IMPLICIT"

-----------------------------------------------------------------------------
(* addResOperand *)

\* the flattener as it was when the node at position p was about to be
\* appended
FlattenerBefore(F, p) ==
    [F EXCEPT !.Sem = SubSeq(F.Sem, 1, p - 1),
              !.CurDefNo = DefsBefore(F.Sem, p)]

\* the DefNos c, c+1, ..., c+k-1 as tokens
DefNoRange(c, k) == [j \in 1..k |-> utostr(c + j - 1)]

\* C12: for every node with k >= 1 non-void types, appended at counter c,
\* addResOperand hands the parent the tokens c, ..., c+k-1, the DefNos the
\* results of the node acquire by the append.
C12_ResOperandWiring ==
    \A p \in 1..Len(Flat.Sem) :
        LET Prev == Flat.Sem[p]
            k    == CountNonVoid(Prev.Types)
            C    == Ctx(FlattenerBefore(Flat, p), Target)
            r    == addResOperand(NewNS, Prev, C)
        IN  k >= 1 =>
              /\ r.C.F.Sem = SubSeq(Flat.Sem, 1, p)
              /\ r.P.Operands = DefNoRange(C.F.CurDefNo, k)

-----------------------------------------------------------------------------
(* The destinations of a set *)

RECURSIVE SelectNodes(_, _)
\* the nodes of a sequence whose opcode is in Opcodes, in order
SelectNodes(Sem, Opcodes) ==
    IF Sem = <<>> THEN <<>>
    ELSE (IF Head(Sem).Opcode \in Opcodes THEN <<Head(Sem)>> ELSE <<>>)
         \o SelectNodes(Tail(Sem), Opcodes)

PutOpcodes == {"DCINS::PUT_RC", "DCINS::PUT_REG"}

\* the results the last child of a set contributes
ValueResults(V) ==
    IF getNamedOperand(V.Name) = 0 /\ ~V.IsLeaf /\ V.Rec \in DOMAIN SDNodeEquiv
    THEN SDNodeInfo[SDNodeEquiv[V.Rec]].NumResults
    ELSE getNumTypes(V)

\* the PUT node expected for a destination and the DefNo it is set to
ExpectedPut(Dest, DefNo) ==
    IF isSubClassOf(NormalizedRec(Dest.Rec), "RegisterClass")
    THEN [Opcode |-> "DCINS::PUT_RC", Types |-> <<"isVoid">>,
          Operands |-> <<utostr(Operands[getNamedOperand(Dest.Name)].MIOperandNo),
                         utostr(DefNo)>>]
    ELSE [Opcode |-> "DCINS::PUT_REG", Types |-> <<"isVoid">>,
          Operands |-> <<QualifiedName(Dest.Rec), utostr(DefNo)>>]

\* C13: flattening a set that passes the arity check appends, after the
\* nodes of its last child, one PUT_RC / PUT_REG node with types [void] per
\* result of the last child, the i-th naming the i-th destination and the
\* DefNo of the i-th result: the DefNo recorded for the last child if it is
\* a named operand materialized before, else that of the node just appended
\* for it.
C13_SetDestinations ==
    [][ LET t        == trees'[Len(trees')]
            V        == t.Kids[getNumChildren(t)]
            Appended == SubSeq(Flat'.Sem, Len(Flat.Sem) + 1, Len(Flat'.Sem))
            Puts     == SelectNodes(Appended, PutOpcodes)
            NumChild == Len(Appended) - Len(Puts)
                        - Len(SelectNodes(Appended, {"DCINS::IMPLICIT"}))
            R        == ValueResults(V)
            First    == IF getNamedOperand(V.Name) # 0
                           /\ Has(Flat.OperandByName, V.Name)
                        THEN Get(Flat.OperandByName, V.Name)
                        ELSE DefsBefore(Flat'.Sem, Len(Flat.Sem) + NumChild)
        IN  (t.Rec = "set" /\ ~IsBadSet(t)) =>
              /\ Len(Puts) = R
              /\ SubSeq(Appended, NumChild + 1, NumChild + R) = Puts
              /\ \A i \in 0..(R - 1) :
                   Puts[i + 1] = ExpectedPut(t.Kids[i + 1], First + i) ]_vars

-----------------------------------------------------------------------------
(* The SDNode equivalence *)

IsSDNode(N) == getNamedOperand(N.Name) = 0 /\ ~N.IsLeaf
               /\ isSubClassOf(N.Rec, "SDNode")

\* opcode and types expected of the node emitted for an SDNode
ExpectedHead(N) ==
    IF N.Rec \in DOMAIN SDNodeEquiv
    THEN [Opcode |-> SDNodeInfo[SDNodeEquiv[N.Rec]].EnumName,
          Types  |-> [j \in 1..SDNodeInfo[SDNodeEquiv[N.Rec]].NumResults |->
                         N.Types[j]]]
    ELSE [Opcode |-> SDNodeOpcode[N.Rec],
          Types  |-> IF N.Types = <<>> THEN <<"isVoid">> ELSE N.Types]

HeadOf(NS) == [Opcode |-> NS.Opcode, Types |-> NS.Types]

RegsOf(Regs) == { Regs[k] : k \in 1..Len(Regs) }

\* C14: the node emitted for an SDNode in the equivalence relation has the
\* equivalent's enum name and the first R inferred types, R the results the
\* equivalent declares; a set over it appends R PUT nodes and records its
\* other destinations as eliminated registers. A node not in the relation
\* keeps its opcode and types, and a set over it eliminates nothing.
C14_EquivalenceRewrite ==
    [][ LET t        == trees'[Len(trees')]
            V        == t.Kids[getNumChildren(t)]
            Appended == SubSeq(Flat'.Sem, Len(Flat.Sem) + 1, Len(Flat'.Sem))
            Puts     == SelectNodes(Appended, PutOpcodes)
            NumChild == Len(Appended) - Len(Puts)
                        - Len(SelectNodes(Appended, {"DCINS::IMPLICIT"}))
            R        == Len(ExpectedHead(V).Types)
        IN  /\ (t.Rec = "set" /\ ~IsBadSet(t) /\ IsSDNode(V)) =>
                 /\ HeadOf(Appended[NumChild]) = ExpectedHead(V)
                 /\ Len(Puts) = CountNonVoid(ExpectedHead(V).Types)
                 /\ RegsOf(Flat'.EliminatedImplicitRegs)
                      = RegsOf(Flat.EliminatedImplicitRegs)
                        \cup { t.Kids[i].Rec :
                                 i \in (R + 1)..(getNumChildren(t) - 1) }
                 /\ (V.Kids # <<>> /\ IsSDNode(V.Kids[1])) =>
                      HeadOf(Appended[1]) = ExpectedHead(V.Kids[1])
            /\ (IsSDNode(t) /\ t.Rec # "set" /\ t.Rec # "implicit") =>
                 HeadOf(Appended[Len(Appended)
                          - Len(SelectNodes(Appended, {"DCINS::IMPLICIT"}))])
                   = ExpectedHead(t) ]_vars

\* C14 witness: a set over a node in the relation that dropped EFLAGS, after
\* a set over a node outside the relation with two results
C14_Witness ==
    /\ Len(trees) = 2
    /\ trees[1].Rec = "set" /\ ~IsBadSet(trees[1])
    /\ trees[1].Kids[getNumChildren(trees[1])].Rec = "sdivrem"
    /\ trees[2].Rec = "set" /\ ~IsBadSet(trees[2])
    /\ trees[2].Kids[getNumChildren(trees[2])].Rec = "X86add_flag"
    /\ trees[2].Kids[getNumChildren(trees[2])].Kids # <<>>
    /\ RegsOf(Flat.EliminatedImplicitRegs) = {"EFLAGS"}
    /\ Len(SelectNodes(Flat.Sem, PutOpcodes)) = 3

-----------------------------------------------------------------------------
(* The phases of the constructor *)

\* the slot of InstSemas instruction i is mapped to
SlotNow(i) == IF pc = "done" THEN slotOf[i] ELSE InstIdx[i]

\* C15: the Semantics records are all processed before the fallback loop
\* starts; an iteration of the fallback loop installs the instruction's
\* pattern iff no record installed semantics for it, it has a pattern and it
\* is not code-gen-only; every instruction is mapped to one slot, no slot
\* but 0 is shared, the slot of an instruction named by a record stays one
\* of the records' slots, and slot 0 stays the sentinel that the
\* instructions without installed semantics are mapped to.
C15_PhaseOrdering ==
    /\ [](pc # "ctor" =>
            /\ At(InstSemas, 0) = DummySemantics
            /\ \A i \in Insts :
                 /\ SlotNow(i) \in 0..(Len(InstSemas) - 1)
                 /\ insts[i].Sema => SlotNow(i) \in 1..nRecs
                 /\ (~insts[i].Sema /\ SlotNow(i) # 0) =>
                      /\ SlotNow(i) > nRecs
                      /\ insts[i].Seen /\ insts[i].HasPattern
                      /\ ~insts[i].IsCodeGenOnly
            /\ \A i, j \in Insts :
                 (i # j /\ SlotNow(i) # 0) => SlotNow(i) # SlotNow(j))
    /\ [][ /\ (nRecs' # nRecs) => (pc = "parse" /\ pc' = "parse")
           /\ (pc = "fallback" /\ pc' = "fallback") =>
                /\ IsPrefix(InstSemas, InstSemas')
                /\ (Len(InstSemas') = Len(InstSemas) + 1)
                     <=> (/\ ~insts[loopI].Sema
                          /\ insts'[loopI].HasPattern
                          /\ ~insts'[loopI].IsCodeGenOnly)
                /\ \A i \in Insts :
                     (insts[i].Sema \/ i # loopI) => InstIdx'[i] = InstIdx[i]
         ]_vars

\* C15 witness: the emitter ran; a record named an instruction that also
\* has a pattern of its own and is not code-gen-only, and another
\* instruction was left without semantics
C15_Witness ==
    /\ pc = "done"
    /\ \E i, j \in Insts :
         /\ insts[i].Sema /\ insts[i].HasPattern /\ ~insts[i].IsCodeGenOnly
         /\ slotOf[i] = 1
         /\ ~insts[j].Sema /\ slotOf[j] = 0

=============================================================================
